---- MODULE Spec2Model ----
(***************************************************************************)
(* Model of XDM1041.py: the SCPI serial framer (class SCPI) and the        *)
(* instrument protocol built on it (class XdmMeter).                       *)
(*                                                                         *)
(* Bytes are integers 0..223 (bytes from 0xE0 up, the lead bytes of 3- and *)
(* 4-byte UTF-8 sequences, are outside the modelled alphabets).  Text is a *)
(* sequence of code points.                                                *)
(***************************************************************************)
EXTENDS Integers, Sequences, FiniteSets, TLC

(***************************************************************************)
(* Bounds of the model.                                                    *)
(***************************************************************************)
\* tokens in one reply of the simulated device (Spec)
MaxTokens == 2
\* tokens in the reply to the identification query (Spec)
MaxIdTokens == 1
\* bytes accumulated by one readdata call (SpecFramer)
MaxFrame == 5
\* bytes delivered by one Channel read (SpecFramer)
MaxChunk == 3

(***************************************************************************)
(* Characters.                                                             *)
(***************************************************************************)
Ord ==
  [c \in {"\n", "\r", " ", "\"", "*", "+", "-", ".", "1", "6", "8", ":", "?",
          "A", "C", "D", "E", "F", "I", "L", "M", "N", "O", "P", "Q", "R",
          "S", "T", "U", "V", "_", "\\", "a", "b", "c", "h", "m", "u", "x"} |->
     CASE c = "\n" -> 10  [] c = "\r" -> 13  [] c = " " -> 32
       [] c = "\"" -> 34  [] c = "*" -> 42   [] c = "+" -> 43
       [] c = "-" -> 45   [] c = "." -> 46   [] c = "1" -> 49
       [] c = "6" -> 54   [] c = "8" -> 56   [] c = ":" -> 58
       [] c = "?" -> 63   [] c = "A" -> 65   [] c = "C" -> 67
       [] c = "D" -> 68   [] c = "E" -> 69   [] c = "F" -> 70
       [] c = "I" -> 73   [] c = "L" -> 76   [] c = "M" -> 77
       [] c = "N" -> 78   [] c = "O" -> 79   [] c = "P" -> 80
       [] c = "Q" -> 81   [] c = "R" -> 82   [] c = "S" -> 83
       [] c = "T" -> 84   [] c = "U" -> 85   [] c = "V" -> 86
       [] c = "_" -> 95   [] c = "\\" -> 92  [] c = "a" -> 97
       [] c = "b" -> 98   [] c = "c" -> 99   [] c = "h" -> 104
       [] c = "m" -> 109  [] c = "u" -> 117  [] c = "x" -> 120]

\* the text (sequence of code points) spelled by a tuple of characters
T(chars) == [i \in 1..Len(chars) |-> Ord[chars[i]]]

\* b"\r\n", the response terminator
CRLF == <<13, 10>>

\* s.endswith(suffix)
EndsWith(s, suffix) ==
  /\ Len(s) >= Len(suffix)
  /\ SubSeq(s, Len(s) - Len(suffix) + 1, Len(s)) = suffix

\* s[:-k], for k > 0
DropLast(s, k) == SubSeq(s, 1, Len(s) - k)

(***************************************************************************)
(* bytes.decode(errors="backslashreplace"): UTF-8 with every undecodable   *)
(* byte replaced by the four characters \xNN (lower-case hex).             *)
(***************************************************************************)
HexDigit(d) == IF d < 10 THEN 48 + d ELSE 97 + (d - 10)

BackslashReplace(b) == <<92, 120, HexDigit(b \div 16), HexDigit(b % 16)>>

IsContinuation(b) == b >= 128 /\ b <= 191

RECURSIVE Decode(_)
Decode(bytes) ==
  IF bytes = <<>> THEN <<>>
  ELSE LET b == Head(bytes)
           rest == Tail(bytes)
       IN IF b < 128 THEN <<b>> \o Decode(rest)
          ELSE IF /\ b >= 194 /\ b <= 223
                  /\ rest # <<>> /\ IsContinuation(Head(rest))
               THEN <<(b - 192) * 64 + (Head(rest) - 128)>> \o Decode(Tail(rest))
               ELSE BackslashReplace(b) \o Decode(rest)

\* str.find(sub): 0-based index of the first occurrence, -1 when absent
Find(res, sub) ==
  LET hits == {i \in 1..(Len(res) - Len(sub) + 1) :
                 SubSeq(res, i, i + Len(sub) - 1) = sub}
  IN IF hits = {} THEN -1
     ELSE (CHOOSE i \in hits : \A j \in hits : i <= j) - 1

\* str.isspace() for one code point below U+0800
IsSpace_NoBlank(c) == c \in (9..13) \cup (28..31) \cup {133, 160}

IsSpace(c) == c \in (9..13) \cup (28..32) \cup {133, 160}

RECURSIVE LStrip(_)
LStrip(s) == IF s # <<>> /\ IsSpace(Head(s)) THEN LStrip(Tail(s)) ELSE s

RECURSIVE RStrip(_)
RStrip(s) ==
  IF s # <<>> /\ IsSpace(s[Len(s)]) THEN RStrip(DropLast(s, 1)) ELSE s

\* str.strip()
Strip(s) == RStrip(LStrip(s))

(***************************************************************************)
(* SCPI.readdata, lines 71-77: the decoded line of the accumulated buffer. *)
(***************************************************************************)
Line_KeepFirst(buf) ==
  LET res == Decode(buf)
      x == Find(res, CRLF)
  IN IF x >= 0 THEN Strip(SubSeq(res, 1, x)) ELSE <<>>

Line(buf) ==
  LET res == Decode(buf)
      x == Find(res, CRLF)
  IN IF x = Len(res) - 2 THEN Strip(res) ELSE <<>>

(***************************************************************************)
(* float(s) for text without exponent, underscore, "inf" or "nan" (the     *)
(* device alphabet has no e, E, _, i, n): [sign] digits [. [digits]] or    *)
(* [sign] . digits.  The value m * 10^e is kept as the pair [m, e],        *)
(* normalised so that equal numbers are equal pairs.                       *)
(***************************************************************************)
IsDigit(c) == c >= 48 /\ c <= 57

Unsigned(s) == IF s # <<>> /\ Head(s) \in {43, 45} THEN Tail(s) ELSE s

IsFloat(s) ==
  LET u == Unsigned(s)
      dots == {i \in 1..Len(u) : u[i] = 46}
  IN /\ \A i \in 1..Len(u) : IsDigit(u[i]) \/ u[i] = 46
     /\ Cardinality(dots) <= 1
     /\ \E i \in 1..Len(u) : IsDigit(u[i])

RECURSIVE DigitsValue(_)
DigitsValue(ds) ==
  IF ds = <<>> THEN 0
  ELSE 10 * DigitsValue(DropLast(ds, 1)) + (ds[Len(ds)] - 48)

RECURSIVE Normalise(_, _)
Normalise(m, e) ==
  IF m = 0 THEN [m |-> 0, e |-> 0]
  ELSE IF m % 10 = 0 THEN Normalise(m \div 10, e + 1)
  ELSE [m |-> m, e |-> e]

FloatOf(s) ==
  LET u == Unsigned(s)
      ds == SelectSeq(u, IsDigit)
      dot == Find(u, <<46>>)
      frac == IF dot < 0 THEN 0 ELSE Len(u) - dot - 1
      sign == IF s # <<>> /\ Head(s) = 45 THEN -1 ELSE 1
  IN Normalise(sign * DigitsValue(ds), -frac)

Zero == [m |-> 0, e |-> 0]

(***************************************************************************)
(* Values returned to the caller.                                          *)
(***************************************************************************)
Pending == [kind |-> "pending", num |-> Zero, str |-> <<>>]
NoneVal == [kind |-> "None", num |-> Zero, str |-> <<>>]
NumVal(v) == [kind |-> "num", num |-> v, str |-> <<>>]
StrVal(t) == [kind |-> "str", num |-> Zero, str |-> t]

(***************************************************************************)
(* XdmMeter.get_response, lines 132-148 and 153-156.                       *)
(***************************************************************************)
OhmEscape == T(<<"\\", "x", "a", "6", "\\", "x", "b", "8">>)
uFEscape == T(<<"\\", "x", "a", "6", "\\", "x", "c", "c", "F">>)
Quote == 34

RECURSIVE LStripQuote(_)
LStripQuote(s) ==
  IF s # <<>> /\ Head(s) = Quote THEN LStripQuote(Tail(s)) ELSE s

RECURSIVE RStripQuote(_)
RStripQuote(s) ==
  IF s # <<>> /\ s[Len(s)] = Quote THEN RStripQuote(DropLast(s, 1)) ELSE s

Repair_ShortCut(s) ==
  IF EndsWith(s, OhmEscape) THEN DropLast(s, 7) \o T(<<"O", "h", "m">>)
  ELSE IF EndsWith(s, uFEscape) THEN DropLast(s, 9) \o T(<<"u", "F">>)
  ELSE IF EndsWith(s, <<Quote>>) THEN RStripQuote(s)
  ELSE s

Repair(s) ==
  IF EndsWith(s, OhmEscape) THEN DropLast(s, 8) \o T(<<"O", "h", "m">>)
  ELSE IF EndsWith(s, uFEscape) THEN DropLast(s, 9) \o T(<<"u", "F">>)
  ELSE IF EndsWith(s, <<Quote>>) THEN RStripQuote(LStripQuote(s))
  ELSE s

\* the value of Res for a non-empty line s
Response(s, numeric) ==
  IF numeric
  THEN IF IsFloat(s) THEN NumVal(FloatOf(s)) ELSE NumVal(Zero)
  ELSE StrVal(Repair(s))

\* the value of Res when the attempts are used up
Sentinel(numeric) == IF numeric THEN NumVal(Zero) ELSE StrVal(T(<<"?">>))

\* "if n > 2" of readdata and "if n > 5" of get_response
EmptyReadLimit_Loose == 2 + 1
EmptyReadLimit == 2
RetryLimit_Short == 5 - 1
RetryLimit == 5

\* Successful after float(s) raised ValueError, line 138
ParseFailSuccessful_Retry == FALSE
ParseFailSuccessful == TRUE

(***************************************************************************)
(* XdmMeter.cmds: the members, their names (what str() gives) and their    *)
(* values.                                                                 *)
(***************************************************************************)
cmds == {"VOLT", "VOLT_AC", "CURR", "CURR_AC", "RES", "CAP", "FREQ", "PER",
         "TEMP", "DIODE", "CONT"}

CmdName(c) ==
  CASE c = "VOLT" -> T(<<"V", "O", "L", "T">>)
    [] c = "VOLT_AC" -> T(<<"V", "O", "L", "T", "_", "A", "C">>)
    [] c = "CURR" -> T(<<"C", "U", "R", "R">>)
    [] c = "CURR_AC" -> T(<<"C", "U", "R", "R", "_", "A", "C">>)
    [] c = "RES" -> T(<<"R", "E", "S">>)
    [] c = "CAP" -> T(<<"C", "A", "P">>)
    [] c = "FREQ" -> T(<<"F", "R", "E", "Q">>)
    [] c = "PER" -> T(<<"P", "E", "R">>)
    [] c = "TEMP" -> T(<<"T", "E", "M", "P">>)
    [] c = "DIODE" -> T(<<"D", "I", "O", "D", "E">>)
    [] c = "CONT" -> T(<<"C", "O", "N", "T">>)

CmdValue(c) ==
  CASE c = "VOLT" -> T(<<"V", "O", "L", "T">>)
    [] c = "VOLT_AC" -> T(<<"V", "O", "L", "T", ":", "A", "C">>)
    [] c = "CURR" -> T(<<"C", "U", "R", "R">>)
    [] c = "CURR_AC" -> T(<<"C", "U", "R", "R", ":", "A", "C">>)
    [] c = "RES" -> T(<<"R", "E", "S">>)
    [] c = "CAP" -> T(<<"C", "A", "P">>)
    [] c = "FREQ" -> T(<<"F", "R", "E", "Q">>)
    [] c = "PER" -> T(<<"P", "E", "R">>)
    [] c = "TEMP" -> T(<<"T", "E", "M", "P">>)
    [] c = "DIODE" -> T(<<"D", "I", "O", "D">>)
    [] c = "CONT" -> T(<<"C", "O", "N", "T">>)

\* f"{mode}" is str(mode), which cmds.__str__ makes the member's name
CmdStr(c) == CmdName(c)

IdnQuery == T(<<"*", "I", "D", "N", "?">>)
FuncQuery_Short == T(<<"F", "U", "N", "C">>)
FuncQuery == T(<<"F", "U", "N", "C", "?">>)
MeasQuery == T(<<"M", "E", "A", "S", "?">>)
ConfPrefix == T(<<"C", "O", "N", "F", ":">>)

\* sendcmd, lines 82-83: (msg + "\n").encode("ascii")
Encode(msg) == msg \o <<10>>

(***************************************************************************)
(* The simulated device (Spec): a reply is a sequence of at most MaxTokens *)
(* tokens followed by CR LF, and reaches the Channel token by token, with  *)
(* empty reads in between.                                                 *)
(***************************************************************************)
Tokens == {T(<<"1">>), T(<<".">>), T(<<"F">>), T(<<"\"">>), T(<<" ">>),
           <<166, 184>>, <<166, 204, 70>>}

\* the identification reply is made of these tokens
IdTokens == {T(<<"1">>), <<166, 184>>}

RECURSIVE Payloads(_, _)
Payloads(tokens, k) ==
  IF k = 0 THEN {<<>>}
  ELSE LET shorter == Payloads(tokens, k - 1)
       IN shorter \cup {p \o t : p \in shorter, t \in tokens}

Streams(tokens, k) ==
  LET ps == Payloads(tokens, k) IN ps \cup {p \o CRLF : p \in ps}

ReplyStreams == Streams(Tokens, MaxTokens)
IdStreams == Streams(IdTokens, MaxIdTokens)

(***************************************************************************)
(* The byte-level Channel (SpecFramer): any chunk of at most MaxChunk      *)
(* bytes over FramerBytes, while the buffer stays within MaxFrame bytes.   *)
(***************************************************************************)
FramerBytes == {13, 10, 49, 166, 204}

RECURSIVE ByteSeqs(_)
ByteSeqs(k) ==
  IF k = 0 THEN {<<>>}
  ELSE LET shorter == ByteSeqs(k - 1)
       IN shorter \cup {p \o <<b>> : p \in shorter, b \in FramerBytes}

ByteChunks == ByteSeqs(MaxChunk)

\* the chunk holds a CR LF and at least one more byte after it
HasNoise(c) == \E i \in 1..(Len(c) - 2) : c[i] = 13 /\ c[i + 1] = 10

\* the bytes of b up to and including its first CR LF
UpToTerminator(b) == SubSeq(b, 1, Find(b, CRLF) + 2)

(***************************************************************************)
(* State.                                                                  *)
(***************************************************************************)
VARIABLES
  pc,         \* "new", "idle", "send", "read", "decode", "resp", "dead"
  op,         \* the call in progress, or the last one
  mode,       \* set_mode's argument, "none" in the other calls
  cmd,        \* sendcmd's msg
  getdata,    \* sendcmd's getdata
  Numeric,    \* get_response's Numeric
  Successful, \* get_response's Successful
  n,          \* get_response's n
  s,          \* the line sendcmd returned
  Res,        \* get_response's Res
  MiniBM,     \* XdmMeter.MiniBM: "unset", "SCPI" or "None"
  id,         \* XdmMeter.id
  open,       \* the serial port is open
  buf,        \* readdata's buf
  rd_n,       \* readdata's n
  ret,        \* what the call returned to its caller
  exc,        \* the exception the call raised, or "none"
  wire,       \* the bytes of the last Channel write
  writes,     \* Channel writes of this call
  frames,     \* readdata calls completed in this call
  reads,      \* Channel reads of the current readdata call
  sleeps,     \* sleep(0.1) calls of this call
  silent,     \* every Channel read so far returned zero bytes
  expect,     \* the bytes up to the first CR LF, once a chunk had noise
  frame,      \* readdata's buf when its loop ended, in the last readdata
  consec,     \* zero-byte reads since the last read that delivered data
  empties     \* zero-byte reads of the current readdata call

vars == <<pc, op, mode, cmd, getdata, Numeric, Successful, n, s, Res, MiniBM,
          id, open, buf, rd_n, ret, exc, wire, writes, frames, reads,
          sleeps, silent, expect, frame, consec, empties>>

Init ==
  /\ pc = "new"
  /\ op = "none"
  /\ mode = "none"
  /\ cmd = <<>>
  /\ getdata = TRUE
  /\ Numeric = FALSE
  /\ Successful = FALSE
  /\ n = 0
  /\ s = <<>>
  /\ Res = Pending
  /\ MiniBM = "unset"
  /\ id = <<>>
  /\ open = FALSE
  /\ buf = <<>>
  /\ rd_n = 0
  /\ ret = Pending
  /\ exc = "none"
  /\ wire = <<>>
  /\ writes = 0
  /\ frames = 0
  /\ reads = 0
  /\ sleeps = 0
  /\ silent = TRUE
  /\ expect = <<>>
  /\ frame = <<>>
  /\ consec = 0
  /\ empties = 0

\* a call starts: its locals are fresh and nothing is written, read or
\* returned yet
StartCall(name) ==
  /\ op' = name
  /\ wire' = <<>>
  /\ writes' = 0
  /\ frames' = 0
  /\ reads' = 0
  /\ sleeps' = 0
  /\ s' = <<>>
  /\ buf' = <<>>
  /\ rd_n' = 0
  /\ expect' = <<>>
  /\ frame' = <<>>
  /\ consec' = 0
  /\ empties' = 0

(***************************************************************************)
(* class SCPI                                                              *)
(***************************************************************************)
\* sendcmd, lines 82-84: the write succeeds; readdata starts (lines 54-55)
SendcmdWrite ==
  /\ pc = "send"
  /\ open
  /\ wire' = Encode(cmd)
  /\ writes' = writes + 1
  /\ IF getdata
     THEN /\ pc' = "read"
          /\ buf' = <<>>
          /\ rd_n' = 0
          /\ reads' = 0
          /\ expect' = <<>>
          /\ frame' = <<>>
          /\ consec' = 0
          /\ empties' = 0
     ELSE /\ pc' = "resp"
          /\ UNCHANGED <<buf, rd_n, reads, expect, frame, consec,
                 empties>>
  /\ UNCHANGED <<op, mode, cmd, getdata, Numeric, Successful, n, s, Res,
                 MiniBM, id, open, ret, exc, frames, sleeps, silent>>

\* sendcmd, line 83: the write raises (the port is closed, or the transport
\* fails); nothing catches it in sendcmd, get_response or __init__
WriteRaises_Swallowed ==
  /\ pc = "send"
  /\ exc' = "none"
  /\ pc' = "read"
  /\ buf' = <<>>
  /\ rd_n' = 0
  /\ reads' = 0
  /\ expect' = <<>>
  /\ frame' = <<>>
  /\ consec' = 0
  /\ empties' = 0
  /\ UNCHANGED <<op, mode, cmd, getdata, Numeric, Successful, n, s, Res,
                 MiniBM, id, open, ret, wire, writes, frames, sleeps, silent>>

WriteRaises ==
  /\ pc = "send"
  /\ exc' = "SerialException"
  /\ pc' = IF op = "__init__" THEN "dead" ELSE "idle"
  /\ UNCHANGED <<op, mode, cmd, getdata, Numeric, Successful, n, s, Res,
                 MiniBM, id, open, buf, rd_n, ret, wire, writes, frames,
                 reads, sleeps, silent,
                 expect, frame, consec, empties>>

\* readdata, lines 60-62: the loop ends when the buffer, not the chunk, ends
\* with CR LF
Terminated_LastChunk(b, data) ==
  Len(data) >= 2 /\ SubSeq(data, Len(data) - 1, Len(data)) = CRLF

Terminated(b, data) ==
  Len(b) >= 2 /\ SubSeq(b, Len(b) - 1, Len(b)) = CRLF

\* readdata, lines 58-62: a read that delivered data leaves n alone
NAfterData_Reset(k) == k - k

NAfterData(k) == k

\* readdata, lines 57-67: one turn of the loop, the Channel delivering data
Read(data) ==
  /\ pc = "read"
  /\ reads' = reads + 1
  /\ silent' = (silent /\ data = <<>>)
  /\ IF Len(data) > 0
     THEN /\ buf' = buf \o data
          /\ rd_n' = NAfterData(rd_n)
          /\ pc' = IF Terminated(buf', data) THEN "decode" ELSE "read"
          /\ expect' = IF expect = <<>> /\ HasNoise(data)
                       THEN UpToTerminator(buf') ELSE expect
          /\ consec' = 0
          /\ empties' = empties
     ELSE /\ rd_n' = rd_n + 1
          /\ IF rd_n' > EmptyReadLimit
             THEN buf' = <<>> /\ pc' = "decode"
             ELSE buf' = buf /\ pc' = "read"
          /\ expect' = expect
          /\ consec' = consec + 1
          /\ empties' = empties + 1
  /\ UNCHANGED <<op, mode, cmd, getdata, Numeric, Successful, n, s, Res,
                 MiniBM, id, open, ret, exc, wire, writes, frames, sleeps,
                 frame>>

\* what the simulated device can deliver to the next read: nothing, the
\* next token of its reply, or the terminator
DeviceChunks ==
  LET streams == IF op = "__init__" THEN IdStreams ELSE ReplyStreams
  IN {<<>>} \cup {c \in Tokens \cup {CRLF} : buf \o c \in streams}

ChannelRead == \E data \in DeviceChunks : Read(data)

FramerRead ==
  \E data \in ByteChunks : Len(buf) + Len(data) <= MaxFrame /\ Read(data)

\* readdata, lines 71-77, and sendcmd, lines 85 and 88: the line goes to
\* the caller of sendcmd and readdata's locals are gone
ReaddataReturn ==
  /\ pc = "decode"
  /\ s' = Line(buf)
  /\ frames' = frames + 1
  /\ pc' = "resp"
  /\ frame' = buf
  /\ buf' = <<>>
  /\ rd_n' = 0
  /\ reads' = 0
  /\ consec' = 0
  /\ empties' = 0
  /\ UNCHANGED <<op, mode, cmd, getdata, Numeric, Successful, n, Res, MiniBM,
                 id, open, ret, exc, wire, writes, sleeps, silent, expect>>

(***************************************************************************)
(* class XdmMeter                                                          *)
(***************************************************************************)
\* __init__, lines 109-110: open the port, send the identification query
Construct ==
  /\ pc = "new"
  /\ StartCall("__init__")
  /\ ret' = Pending
  /\ exc' = "none"
  /\ MiniBM' = "SCPI"
  /\ open' = TRUE
  /\ cmd' = IdnQuery
  /\ getdata' = TRUE
  /\ pc' = "send"
  /\ UNCHANGED <<mode, Numeric, Successful, n, Res, id, silent>>

\* __init__, lines 110-115
InitFinish_Repaired ==
  /\ pc = "resp"
  /\ op = "__init__"
  /\ id' = Repair(s)
  /\ MiniBM' = IF s = <<>> THEN "None" ELSE MiniBM
  /\ ret' = NoneVal
  /\ pc' = "idle"
  /\ UNCHANGED <<op, mode, cmd, getdata, Numeric, Successful, n, s, Res, open,
                 buf, rd_n, exc, wire, writes, frames, reads, sleeps, silent,
                 expect, frame, consec, empties>>

InitFinish ==
  /\ pc = "resp"
  /\ op = "__init__"
  /\ id' = s
  /\ MiniBM' = IF s = <<>> THEN "None" ELSE MiniBM
  /\ ret' = NoneVal
  /\ pc' = "idle"
  /\ UNCHANGED <<op, mode, cmd, getdata, Numeric, Successful, n, s, Res, open,
                 buf, rd_n, exc, wire, writes, frames, reads, sleeps, silent,
                 expect, frame, consec, empties>>

\* get_response, lines 127-130, entered from get_mode, get_measurement or
\* set_mode: self.MiniBM.sendcmd raises AttributeError when MiniBM is None
GetResponse(name, text, numeric) ==
  /\ pc = "idle"
  /\ StartCall(name)
  /\ ret' = Pending
  /\ cmd' = text
  /\ getdata' = TRUE
  /\ Numeric' = numeric
  /\ Successful' = FALSE
  /\ n' = 0
  /\ Res' = Pending
  /\ IF MiniBM = "None"
     THEN pc' = "idle" /\ exc' = "AttributeError"
     ELSE pc' = "send" /\ exc' = "none"
  /\ UNCHANGED <<MiniBM, id, open, silent>>

\* lines 163-164
GetMode == GetResponse("get_mode", FuncQuery, FALSE) /\ mode' = "none"

\* lines 166-167
GetMeasurement ==
  GetResponse("get_measurement", MeasQuery, TRUE) /\ mode' = "none"

\* lines 160-161
SetMode ==
  \E m \in cmds :
    /\ mode' = m
    /\ GetResponse("set_mode", ConfPrefix \o CmdStr(m), FALSE)

\* what the method that called get_response returns
Returned(res) == IF op = "set_mode" THEN NoneVal ELSE res

\* get_response, lines 131-158, once sendcmd has returned s
HandleResponse ==
  /\ pc = "resp"
  /\ op \in {"get_mode", "get_measurement", "set_mode"}
  /\ IF s # <<>>
     THEN /\ Res' = Response(s, Numeric)
          /\ Successful' = IF Numeric /\ ~IsFloat(s)
                           THEN ParseFailSuccessful ELSE TRUE
          /\ UNCHANGED <<n, sleeps>>
          /\ IF Successful'
             THEN pc' = "idle" /\ ret' = Returned(Res')
             ELSE pc' = "send" /\ ret' = ret
     ELSE /\ sleeps' = sleeps + 1
          /\ n' = n + 1
          /\ Successful' = Successful
          /\ IF n' > RetryLimit
             THEN /\ Res' = Sentinel(Numeric)
                  /\ pc' = "idle"
                  /\ ret' = Returned(Res')
             ELSE /\ Res' = Res
                  /\ pc' = "send"
                  /\ ret' = ret
  /\ UNCHANGED <<op, mode, cmd, getdata, Numeric, s, MiniBM, id, open, buf,
                 rd_n, exc, wire, writes, frames, reads, silent,
                 expect, frame, consec,
                 empties>>

\* close, lines 169-170, and SCPI.__del__, lines 45-49
Close ==
  /\ pc = "idle"
  /\ StartCall("close")
  /\ IF MiniBM = "None"
     THEN /\ exc' = "AttributeError"
          /\ ret' = Pending
          /\ open' = open
     ELSE /\ exc' = "none"
          /\ ret' = NoneVal
          /\ open' = FALSE
  /\ pc' = "idle"
  /\ mode' = "none"
  /\ cmd' = <<>>
  /\ Numeric' = FALSE
  /\ Successful' = FALSE
  /\ n' = 0
  /\ Res' = Pending
  /\ UNCHANGED <<getdata, MiniBM, id, silent>>

Next ==
  \/ Construct
  \/ SendcmdWrite
  \/ WriteRaises
  \/ ChannelRead
  \/ ReaddataReturn
  \/ InitFinish
  \/ GetMode
  \/ GetMeasurement
  \/ SetMode
  \/ HandleResponse
  \/ Close

Spec == Init /\ [][Next]_vars

(***************************************************************************)
(* SpecFramer: a caller that uses an SCPI object directly, over the        *)
(* byte-level Channel.                                                     *)
(***************************************************************************)
InitFramer ==
  /\ pc = "idle"
  /\ op = "none"
  /\ mode = "none"
  /\ cmd = <<>>
  /\ getdata = TRUE
  /\ Numeric = FALSE
  /\ Successful = FALSE
  /\ n = 0
  /\ s = <<>>
  /\ Res = Pending
  /\ MiniBM = "unset"
  /\ id = <<>>
  /\ open = TRUE
  /\ buf = <<>>
  /\ rd_n = 0
  /\ ret = Pending
  /\ exc = "none"
  /\ wire = <<>>
  /\ writes = 0
  /\ frames = 0
  /\ reads = 0
  /\ sleeps = 0
  /\ silent = TRUE
  /\ expect = <<>>
  /\ frame = <<>>
  /\ consec = 0
  /\ empties = 0

\* a call of sendcmd(msg, getdata), line 79
Sendcmd ==
  \E gd \in BOOLEAN :
    /\ pc = "idle"
    /\ StartCall("sendcmd")
    /\ ret' = Pending
    /\ exc' = "none"
    /\ cmd' = MeasQuery
    /\ getdata' = gd
    /\ pc' = "send"
    /\ UNCHANGED <<mode, Numeric, Successful, n, Res, MiniBM, id, open,
                   silent>>

\* sendcmd, lines 84-88: res is the line read, or None
SendcmdReturn ==
  /\ pc = "resp"
  /\ op = "sendcmd"
  /\ ret' = IF getdata THEN StrVal(s) ELSE NoneVal
  /\ pc' = "idle"
  /\ UNCHANGED <<op, mode, cmd, getdata, Numeric, Successful, n, s, Res,
                 MiniBM, id, open, buf, rd_n, exc, wire, writes, frames,
                 reads, sleeps, silent,
                 expect, frame, consec, empties>>

NextFramer ==
  \/ Sendcmd
  \/ SendcmdWrite
  \/ WriteRaises
  \/ FramerRead
  \/ ReaddataReturn
  \/ SendcmdReturn

SpecFramer == InitFramer /\ [][NextFramer]_vars

(***************************************************************************)
(* SCPI against a Channel that never falls silent (SpecStream): the device *)
(* sends on and on and never a line feed.  The loop of readdata looks at   *)
(* buf[-2:] only (line 61), so the model keeps the last two bytes of buf;  *)
(* the buffer never ends with CR LF here, and readdata can only end by     *)
(* giving up, which empties buf.  The Channel reads are not counted.       *)
(***************************************************************************)
TailKept == 2

LastBytes(b, k) == IF Len(b) <= k THEN b ELSE SubSeq(b, Len(b) - k + 1, Len(b))

StreamChunks == {c \in ByteChunks : \A i \in 1..Len(c) : c[i] # 10}

\* readdata, lines 57-67, with buf cut to its last TailKept bytes
ReadTail(data) ==
  /\ pc = "read"
  /\ silent' = (silent /\ data = <<>>)
  /\ IF Len(data) > 0
     THEN /\ buf' = LastBytes(buf \o data, TailKept)
          /\ rd_n' = NAfterData(rd_n)
          /\ pc' = IF Terminated(buf', data) THEN "decode" ELSE "read"
          /\ consec' = 0
          /\ empties' = empties
     ELSE /\ rd_n' = rd_n + 1
          /\ IF rd_n' > EmptyReadLimit
             THEN buf' = <<>> /\ pc' = "decode"
             ELSE buf' = buf /\ pc' = "read"
          /\ consec' = consec + 1
          /\ empties' = empties + 1
  /\ UNCHANGED <<op, mode, cmd, getdata, Numeric, Successful, n, s, Res,
                 MiniBM, id, open, ret, exc, wire, writes, frames, sleeps,
                 frame, reads, expect>>

StreamRead == \E data \in StreamChunks : ReadTail(data)

NextStream ==
  \/ Sendcmd
  \/ SendcmdWrite
  \/ WriteRaises
  \/ StreamRead
  \/ ReaddataReturn
  \/ SendcmdReturn

\* the calls of pyserial come back (read after its timeout at the latest)
\* and the interpreter goes on to the next statement; nothing makes the
\* caller call sendcmd again
SpecStream ==
  /\ InitFramer
  /\ [][NextStream]_vars
  /\ WF_vars(SendcmdWrite \/ WriteRaises)
  /\ WF_vars(StreamRead)
  /\ WF_vars(ReaddataReturn)
  /\ WF_vars(SendcmdReturn)

TypeOK ==
  /\ pc \in {"new", "idle", "send", "read", "decode", "resp", "dead"}
  /\ n \in 0..(RetryLimit + 1)
  /\ rd_n \in 0..(EmptyReadLimit + 1)
  /\ MiniBM \in {"unset", "SCPI", "None"}
  /\ exc \in {"none", "AttributeError", "SerialException"}

(***************************************************************************)
(* Properties.                                                             *)
(***************************************************************************)
ResponseOps == {"get_mode", "get_measurement", "set_mode"}

\* a call of op has come back to its caller
Finished(name) == pc = "idle" /\ op = name

\* C1: once the *IDN? reply decoded to an empty line, get_mode,
\* get_measurement and set_mode do no Channel write and no Channel read, do
\* not raise, and return the sentinel ("?" for get_mode, 0 for
\* get_measurement).
C1_AbsentCallsAreNoOps ==
  (pc = "idle" /\ MiniBM = "None" /\ op \in ResponseOps) =>
    /\ exc = "none"
    /\ writes = 0 /\ frames = 0 /\ reads = 0
    /\ (op = "get_mode" => ret = StrVal(T(<<"?">>)))
    /\ (op = "get_measurement" => ret = NumVal(Zero))

\* C2: against a device that never replies (every Channel read since
\* construction returned zero bytes), get_measurement returns 0 and does not
\* raise.
C2_SilentMeasurementIsZero ==
  (Finished("get_measurement") /\ silent) =>
    (exc = "none" /\ ret = NumVal(Zero))

\* C3: on an identified instance, when every line sendcmd yields is empty,
\* get_response writes the command exactly 6 times, each write followed by
\* one readdata, and then returns the sentinel without raising; there is
\* never a 7th write.
C3_RetryBound ==
  /\ (op \in ResponseOps) => (writes <= 6 /\ frames <= writes)
  /\ (pc = "idle" /\ op \in ResponseOps /\ MiniBM = "SCPI" /\ exc = "none"
        /\ s = <<>>) =>
       /\ writes = 6 /\ frames = 6
       /\ Res = (IF Numeric THEN NumVal(Zero) ELSE StrVal(T(<<"?">>)))

C3_Witness ==
  /\ Finished("get_measurement") /\ MiniBM = "SCPI" /\ exc = "none"
  /\ s = <<>> /\ writes = 6 /\ ret = NumVal(Zero)

\* C4: when every Channel read returns zero bytes, readdata returns an empty
\* frame after exactly 3 reads: it is still reading after fewer, its loop
\* has ended after the third, and it returns the empty line without raising.
C4_TimeoutBound ==
  /\ []((pc = "read" /\ reads = rd_n) => reads < 3)
  /\ []((pc = "decode" /\ reads = rd_n) =>
          (reads = 3 /\ buf = <<>> /\ exc = "none"))
  /\ [][(pc = "decode" /\ reads = rd_n) =>
          (pc' = "resp" /\ s' = <<>> /\ exc' = "none")]_vars

C4_Witness == pc = "decode" /\ reads = 3 /\ rd_n = 3 /\ buf = <<>>

\* C5 as stated: when one Channel read delivers a payload, CR LF and further
\* noise, readdata returns exactly the bytes up to and including the first
\* terminator, and the payload is the decoded line.
C5_FrameCutAtFirstTerminator ==
  /\ (pc = "decode" /\ expect # <<>>) => buf = expect
  /\ (pc = "resp" /\ expect # <<>>) => s = Line(expect)

\* C5: when one Channel read delivers a payload, CR LF and further noise,
\* readdata does not cut the frame at the first terminator: the buffer its
\* loop ends with is never the bytes up to that terminator, and the decoded
\* line it returns is empty.
C5_NoiseDiscardsLine ==
  /\ (pc = "decode" /\ expect # <<>>) => buf # expect
  /\ (pc = "resp" /\ expect # <<>>) => s = <<>>

\* readdata has returned after a read that held a non-blank payload, its
\* terminator and noise
C5_Witness ==
  /\ pc = "resp" /\ op = "sendcmd" /\ frames = 1 /\ exc = "none"
  /\ Len(expect) > 2 /\ Line(expect) # <<>> /\ s = <<>>

\* C6: close never raises, in every instance state: after a successful
\* identification, after a failed one, and after an earlier close.
C6_CloseNeverRaises == Finished("close") => exc = "none"

\* C7: set_mode(c) writes "CONF:" followed by the SCPI mnemonic of c (the
\* member's value) and the line terminator.
C7_SetModeWritesMnemonic ==
  (op = "set_mode" /\ writes > 0) =>
    wire = ConfPrefix \o CmdValue(mode) \o <<10>>

\* C8: with Numeric requested, a non-empty line that does not parse as a
\* number yields 0 in that same attempt: get_response returns, with no
\* further write or read and without counting an attempt.
C8_ParseFailureEndsLoop ==
  [][(pc = "resp" /\ op \in ResponseOps /\ Numeric /\ s # <<>> /\ ~IsFloat(s))
       => /\ pc' = "idle"
          /\ Res' = NumVal(Zero) /\ ret' = NumVal(Zero)
          /\ n' = n /\ sleeps' = sleeps
          /\ writes' = writes /\ frames' = frames /\ reads' = reads]_vars

C8_Witness ==
  /\ Finished("get_measurement") /\ exc = "none"
  /\ s # <<>> /\ ~IsFloat(s) /\ ret = NumVal(Zero) /\ writes = n + 1

\* C9: a Channel write that fails, in any attempt of get_response or during
\* construction, reaches the caller at once: the write is not retried, no
\* readdata follows it and no value is returned in its place.
C9_WriteFailurePropagates ==
  /\ [](exc = "SerialException" =>
          (pc \in {"idle", "dead"} /\ ret = Pending /\ frames = writes))
  /\ [][(pc = "send" /\ writes' = writes)
          => /\ exc' = "SerialException"
             /\ pc' = (IF op = "__init__" THEN "dead" ELSE "idle")
             /\ ret' = Pending /\ Res' = Res
             /\ n' = n /\ frames' = frames /\ reads' = reads]_vars

C9_Witness ==
  /\ exc = "SerialException" /\ pc = "idle" /\ op = "get_mode"
  /\ open /\ n > 0 /\ writes = n

\* C10: in text mode the line is repaired by the first matching rule only:
\* a trailing Omega escape becomes "Ohm", else a trailing micro-farad escape
\* becomes "uF", else, when the line ends in a double quote, the double
\* quotes are stripped from both ends, else the line is unchanged; what
\* precedes the escape is kept; in numeric mode nothing is repaired.
Quotes(k) == [i \in 1..k |-> Quote]

RepairedAs(line, out) ==
  IF EndsWith(line, OhmEscape)
  THEN \E k \in 0..Len(line) :
         /\ line = SubSeq(line, 1, k) \o OhmEscape
         /\ out = SubSeq(line, 1, k) \o T(<<"O", "h", "m">>)
  ELSE IF EndsWith(line, uFEscape)
  THEN \E k \in 0..Len(line) :
         /\ line = SubSeq(line, 1, k) \o uFEscape
         /\ out = SubSeq(line, 1, k) \o T(<<"u", "F">>)
  ELSE IF line # <<>> /\ line[Len(line)] = Quote
  THEN /\ out = <<>> \/ (out[1] # Quote /\ out[Len(out)] # Quote)
       /\ \E i, j \in 0..Len(line) : line = Quotes(i) \o out \o Quotes(j)
  ELSE out = line

C10_ArtifactRepair ==
  (pc = "idle" /\ op \in ResponseOps /\ exc = "none" /\ s # <<>>) =>
    IF Numeric
    THEN Res.kind = "num" /\ (~IsFloat(s) => Res.num = Zero)
    ELSE Res.kind = "str" /\ RepairedAs(s, Res.str)

C10_Witness ==
  /\ Finished("get_mode") /\ exc = "none"
  /\ s = T(<<"1">>) \o OhmEscape
  /\ ret = StrVal(T(<<"1", "O", "h", "m">>))

\* a frame as the loop of readdata left it: bytes, then one CR LF at the end
NoTerminatorIn(p) == \A i \in 1..(Len(p) - 1) : ~(p[i] = 13 /\ p[i + 1] = 10)

IsFrame(f) == EndsWith(f, CRLF) /\ NoTerminatorIn(DropLast(f, 1))

Payload(f) == DropLast(f, 2)

\* nothing but blanks, tabs, CR, LF, VT and FF
IsBlank(p) == \A i \in 1..Len(p) : p[i] \in {9, 10, 11, 12, 13, 32}

\* printable ASCII text with no blank at either end and none of the three
\* suffixes get_response rewrites
IsCleanText(p) ==
  /\ p # <<>>
  /\ \A i \in 1..Len(p) : p[i] \in 32..126
  /\ p[1] # 32 /\ p[Len(p)] # 32
  /\ p[Len(p)] # Quote
  /\ ~EndsWith(p, OhmEscape) /\ ~EndsWith(p, uFEscape)

CleanFrame(f) == IsFrame(f) /\ IsCleanText(Payload(f))

\* C11: when the first frame get_mode reads is "<text>\r\n" with a clean
\* <text>, get_mode has written "FUNC?\n" once, writes nothing more and
\* returns <text>; and when the *IDN? reply is a frame with a payload that is
\* not blank, the instance is identified and id holds the decoded payload
\* (the payload itself when it is clean text).
C11_CleanReplyFirstAttempt ==
  /\ (op = "get_mode" /\ frames = 1 /\ CleanFrame(frame)) =>
       /\ pc \in {"resp", "idle"}
       /\ writes = 1
       /\ wire = T(<<"F", "U", "N", "C", "?", "\n">>)
       /\ s = Payload(frame)
       /\ (pc = "idle" => (exc = "none" /\ ret = StrVal(Payload(frame))))
  /\ (pc = "idle" /\ op = "__init__" /\ IsFrame(frame)
        /\ ~IsBlank(Payload(frame))) =>
       /\ MiniBM = "SCPI"
       /\ id # <<>>
       /\ id = Strip(Decode(Payload(frame)))
       /\ (IsCleanText(Payload(frame)) => id = Payload(frame))

C11_Witness ==
  /\ Finished("get_mode")
  /\ frames = 1
  /\ frame = T(<<"1", "F">>) \o CRLF
  /\ ret = StrVal(T(<<"1", "F">>))
  /\ id = T(<<"1">>)

\* the loop of readdata has given up: it ended with the buffer thrown away
GaveUp == pc = "decode" /\ buf = <<>>

\* C12 as stated: readdata gives up only when the last 3 Channel reads in a
\* row returned zero bytes; zero-byte reads with a data-bearing read between
\* them do not add up.
C12_ConsecutiveEmptyReads == GaveUp => consec >= 3

\* C12: readdata gives up exactly when 3 Channel reads of the call have
\* returned zero bytes, in a row or not: a data-bearing read never lowers
\* the count, so zero-byte reads separated by data-bearing reads add up.
C12_TotalEmptyReads ==
  /\ [](GaveUp => (empties = 3 /\ consec \in 1..3))
  /\ [](pc = "read" => empties < 3)
  /\ [][(pc = "read" /\ pc' = "read") => rd_n' >= rd_n]_vars

C12_Witness == GaveUp /\ empties = 3 /\ consec = 1 /\ reads = 5

\* C13: sendcmd never returns a partial or merged line: a non-empty result
\* is the whole payload of a buffer that ended with CR LF and held no other
\* CR LF before its last two bytes; a buffer with an earlier CR LF in it,
\* and the bytes gathered before readdata gave up, give the empty string.
C13_NoPartialOrMergedLine ==
  /\ []((op = "sendcmd" /\ pc \in {"resp", "idle"} /\ s # <<>>) =>
          /\ IsFrame(frame)
          /\ s = Strip(Decode(Payload(frame))))
  /\ []((op = "sendcmd" /\ pc \in {"resp", "idle"} /\ ~IsFrame(frame)) =>
          s = <<>>)
  /\ []((Finished("sendcmd") /\ exc = "none" /\ getdata) => ret = StrVal(s))
  /\ [][(pc = "read" /\ empties' = 3) => (pc' = "decode" /\ buf' = <<>>)]_vars
  /\ [][(pc = "decode" /\ empties = 3) => (frame' = <<>> /\ s' = <<>>)]_vars

C13_Witness ==
  /\ Finished("sendcmd")
  /\ frame = <<49, 13, 10, 13, 10>>
  /\ ret = StrVal(<<>>)

\* C14: every call of sendcmd comes back to its caller, whatever the Channel
\* delivers: readdata does a bounded number of Channel reads and does not
\* go on reading for ever.
C14_EveryCallReturns == (pc = "send") ~> (pc = "idle")

IsPrefix(a, b) == Len(a) <= Len(b) /\ SubSeq(b, 1, Len(a)) = a

\* C15: the terminator is looked for at the end of the accumulated buffer,
\* not of the last chunk: each data-bearing read adds its bytes to the
\* buffer, fewer than 3 zero-byte reads lose none of them, the loop ends
\* with the read that leaves the buffer ending with CR LF however the bytes
\* were cut into reads (CR and LF in different reads included), and a
\* buffer holding one reply is returned as its decoded payload.
C15_SplitReplyIsOneFrame ==
  /\ [](pc = "read" => ~EndsWith(buf, CRLF))
  /\ []((pc = "decode" /\ empties < 3) => EndsWith(buf, CRLF))
  /\ [][(pc = "read" /\ empties' = empties) =>
          /\ IsPrefix(buf, buf') /\ Len(buf') > Len(buf)
          /\ (pc' = "decode") = EndsWith(buf', CRLF)]_vars
  /\ [][(pc = "read" /\ empties' = empties + 1 /\ empties' < 3) =>
          (buf' = buf /\ pc' = "read")]_vars
  /\ [][(pc = "decode" /\ IsFrame(buf)) =>
          (frame' = buf /\ s' = Strip(Decode(Payload(buf))))]_vars

\* "1", CR and LF came in three reads, with a zero-byte read among them
C15_Witness ==
  /\ pc = "decode"
  /\ buf = <<49, 13, 10>>
  /\ reads = 4 /\ empties = 1

\* C16: construction writes "*IDN?\n" once and reads one frame, with no
\* second try; the decoded line is stored as id just as it came, an empty
\* one makes the instance absent, and neither id nor the absence changes
\* afterwards.
C16_IdentifyOnce ==
  /\ [](op = "__init__" => (writes <= 1 /\ frames <= 1))
  /\ []((pc = "idle" /\ op = "__init__") =>
          /\ writes = 1 /\ frames = 1
          /\ wire = T(<<"*", "I", "D", "N", "?", "\n">>)
          /\ id = s
          /\ (MiniBM = "None") = (s = <<>>)
          /\ (IsFrame(frame) => id = Strip(Decode(Payload(frame)))))
  /\ [][MiniBM = "None" => MiniBM' = "None"]_vars
  /\ [][(op # "__init__" \/ pc # "resp") => id' = id]_vars

\* a bare CR LF came back for *IDN?
C16_Witness ==
  /\ pc = "idle" /\ op = "__init__"
  /\ frame = CRLF
  /\ id = <<>> /\ MiniBM = "None"
  /\ writes = 1 /\ frames = 1

\* C17: in one readdata call no more than 3 Channel reads return zero bytes,
\* with or without data-bearing reads between them; the third one ends the
\* loop and throws away every byte gathered so far.
C17_AtMostThreeEmptyReads ==
  /\ [](empties <= 3)
  /\ [](empties = 3 => (pc = "decode" /\ buf = <<>>))
  /\ [][(pc = "read" /\ empties = 2 /\ empties' = 3) =>
          (pc' = "decode" /\ buf' = <<>> /\ reads' = reads + 1)]_vars

\* two data-bearing reads and three zero-byte reads, not all in a row
C17_Witness ==
  /\ pc = "decode" /\ buf = <<>>
  /\ empties = 3 /\ reads = 5 /\ consec = 2

BlankFrame(f) == IsFrame(f) /\ IsBlank(Payload(f))

\* C18: a frame whose payload is empty or only white space (a bare CR LF,
\* say) decodes to the empty line, and get_response does with it what it
\* does when readdata gave up: it sleeps, counts one more of its 6 tries and
\* sends the command again, or returns the sentinel when that was the 6th.
C18_BlankFrameIsATimeout ==
  /\ []((pc = "resp" /\ BlankFrame(frame)) => s = <<>>)
  /\ [][(pc = "resp" /\ op \in ResponseOps
           /\ (BlankFrame(frame) \/ frame = <<>>)) =>
          /\ n' = n + 1 /\ sleeps' = sleeps + 1
          /\ IF n < 5
             THEN pc' = "send" /\ cmd' = cmd /\ ret' = Pending
             ELSE /\ pc' = "idle" /\ exc' = "none"
                  /\ Res' = IF Numeric THEN NumVal(Zero)
                            ELSE StrVal(T(<<"?">>))]_vars
  /\ [](op \in ResponseOps => n <= writes)

\* six blank frames in a row, the last one " \r\n", end in the sentinel
C18_Witness ==
  /\ Finished("get_mode")
  /\ frame = <<32, 13, 10>>
  /\ n = 6 /\ writes = 6 /\ frames = 6 /\ sleeps = 6
  /\ ret = StrVal(T(<<"?">>))

\* C19: in a get_response call of an identified instance whose writes
\* succeed, the command is written at least once and at most 6 times, every
\* write is followed by one finished readdata before the next write, n never
\* passes 6, and at the return the writes number n + 1 after a line that
\* was not empty (n empty lines came before it) and 6 when all 6 were empty.
C19_WriteCount ==
  (op \in ResponseOps /\ MiniBM = "SCPI") =>
    /\ writes <= 6 /\ n <= 6 /\ sleeps = n
    /\ (pc = "send" => (frames = writes /\ writes = n /\ n <= 5))
    /\ (pc \in {"read", "decode"} => (frames = writes - 1 /\ writes = n + 1))
    /\ (pc = "resp" => (frames = writes /\ writes = n + 1))
    /\ ((pc = "idle" /\ exc = "none") =>
          /\ writes \in 1..6
          /\ frames = writes
          /\ IF s # <<>> THEN writes = n + 1 ELSE (writes = 6 /\ n = 6))

\* two empty lines, then a number
C19_Witness ==
  /\ Finished("get_measurement")
  /\ exc = "none"
  /\ writes = 3 /\ frames = 3 /\ n = 2
  /\ s = T(<<"1", ".">>)
  /\ ret.kind = "num"

====
